---- MODULE Spec2Model ----
(***************************************************************************)
(* Model of Lecture_6/t-test.ipynb: the descriptive statistics             *)
(* data.agg(['mean', 'std']) and the repeated-measures test                *)
(* stats.ttest_rel(a, b), followed by the print of t and p.                *)
(*                                                                         *)
(* The two library calls compute in binary floating point.  The model      *)
(* keeps that arithmetic: a float is NaN, +/-Inf or m * 2^e with a         *)
(* mantissa of at most MantBits bits, and every operation rounds its exact *)
(* result to nearest, ties to even.  MantBits is scaled down from the 53   *)
(* bits of float64 so that rounding happens on small inputs; the exponent  *)
(* is unbounded (no overflow or underflow on the inputs enumerated).       *)
(***************************************************************************)
EXTENDS Integers, Sequences, FiniteSets, TLC

\* ------------------------------------------------------------------ bounds
MantBits == 3
MaxLen == 3
MaxBadLen == 2

\* ------------------------------------------------- integer helper functions
Abs(n) == IF n < 0 THEN -n ELSE n

Sgn(n) == IF n < 0 THEN -1 ELSE IF n > 0 THEN 1 ELSE 0

RECURSIVE Pow2(_)
Pow2(n) == IF n <= 0 THEN 1 ELSE 2 * Pow2(n - 1)

RECURSIVE BitLen(_)
BitLen(n) == IF n <= 0 THEN 0 ELSE 1 + BitLen(n \div 2)

\* ------------------------------------------------------------ float values
NaN == [k |-> "nan", m |-> 0, e |-> 0]

Inf(s) == [k |-> "inf", m |-> s, e |-> 0]

RECURSIVE Fin(_, _)
Fin(m, e) ==
    IF m = 0 THEN [k |-> "fin", m |-> 0, e |-> 0]
    ELSE IF m % 2 = 0 THEN Fin(m \div 2, e + 1)
    ELSE [k |-> "fin", m |-> m, e |-> e]

Zero == Fin(0, 0)

IsNaN(x) == x.k = "nan"

IsInf(x) == x.k = "inf"

IsFinite(x) == x.k = "fin"

IsZero(x) == x.k = "fin" /\ x.m = 0

\* sign of a float: -1, 0, 1 (0 for zero and for NaN)
FSign(x) == IF x.k = "nan" THEN 0 ELSE Sgn(x.m)

\* round the exact value M * 2^e to prec significant bits, ties to even
RoundTo(prec, M, e) ==
    LET a == Abs(M)
        L == BitLen(a)
    IN  IF L <= prec THEN Fin(M, e)
        ELSE LET sh == L - prec
                 q == a \div Pow2(sh)
                 r == a % Pow2(sh)
                 half == Pow2(sh - 1)
                 up == r > half \/ (r = half /\ q % 2 = 1)
                 q2 == IF up THEN q + 1 ELSE q
             IN  Fin(Sgn(M) * q2, e + sh)

Round(M, e) == RoundTo(MantBits, M, e)

FromInt(n) == Round(n, 0)

FNeg(x) == IF x.k = "nan" THEN NaN ELSE [x EXCEPT !.m = -x.m]

FAbs(x) == IF x.k = "nan" THEN NaN ELSE [x EXCEPT !.m = Abs(x.m)]

FAdd(x, y) ==
    IF IsNaN(x) \/ IsNaN(y) THEN NaN
    ELSE IF IsInf(x) /\ IsInf(y) THEN (IF x.m = y.m THEN x ELSE NaN)
    ELSE IF IsInf(x) THEN x
    ELSE IF IsInf(y) THEN y
    ELSE LET e == IF x.e < y.e THEN x.e ELSE y.e
         IN  Round(x.m * Pow2(x.e - e) + y.m * Pow2(y.e - e), e)

FSub(x, y) == FAdd(x, FNeg(y))

FMul(x, y) ==
    IF IsNaN(x) \/ IsNaN(y) THEN NaN
    ELSE IF IsInf(x) \/ IsInf(y)
         THEN (IF IsZero(x) \/ IsZero(y) THEN NaN ELSE Inf(Sgn(x.m) * Sgn(y.m)))
    ELSE Round(x.m * y.m, x.e + y.e)

\* mutant of FDiv: a division by zero is invalid, x/0 is NaN for every x
FDiv_invalid(x, y) ==
    IF IsNaN(x) \/ IsNaN(y) THEN NaN
    ELSE IF IsInf(x) THEN (IF IsInf(y) THEN NaN
                           ELSE Inf(x.m * (IF y.m < 0 THEN -1 ELSE 1)))
    ELSE IF IsInf(y) THEN Zero
    ELSE IF y.m = 0 THEN NaN
    ELSE IF x.m = 0 THEN Zero
    ELSE LET a == Abs(x.m)
             b == Abs(y.m)
             s == MantBits + 2 + BitLen(b)
             q == (a * Pow2(s)) \div b
             st == IF (a * Pow2(s)) % b = 0 THEN 0 ELSE 1
         IN  Round(Sgn(x.m) * Sgn(y.m) * (2 * q + st), x.e - y.e - s - 1)

\* mutant of FDiv: 0/0 is reported as 0 instead of NaN
FDiv_zero(x, y) ==
    IF IsNaN(x) \/ IsNaN(y) THEN NaN
    ELSE IF IsInf(x) THEN (IF IsInf(y) THEN NaN
                           ELSE Inf(x.m * (IF y.m < 0 THEN -1 ELSE 1)))
    ELSE IF IsInf(y) THEN Zero
    ELSE IF x.m = 0 THEN Zero
    ELSE IF y.m = 0 THEN Inf(Sgn(x.m))
    ELSE LET a == Abs(x.m)
             b == Abs(y.m)
             s == MantBits + 2 + BitLen(b)
             q == (a * Pow2(s)) \div b
             st == IF (a * Pow2(s)) % b = 0 THEN 0 ELSE 1
         IN  Round(Sgn(x.m) * Sgn(y.m) * (2 * q + st), x.e - y.e - s - 1)

\* IEEE division with divide and invalid not trapped: x/0 is +/-Inf, 0/0 NaN
FDiv(x, y) ==
    IF IsNaN(x) \/ IsNaN(y) THEN NaN
    ELSE IF IsInf(x) THEN (IF IsInf(y) THEN NaN
                           ELSE Inf(x.m * (IF y.m < 0 THEN -1 ELSE 1)))
    ELSE IF IsInf(y) THEN Zero
    ELSE IF y.m = 0 THEN (IF x.m = 0 THEN NaN ELSE Inf(Sgn(x.m)))
    ELSE IF x.m = 0 THEN Zero
    ELSE LET a == Abs(x.m)
             b == Abs(y.m)
             s == MantBits + 2 + BitLen(b)
             q == (a * Pow2(s)) \div b
             st == IF (a * Pow2(s)) % b = 0 THEN 0 ELSE 1
         IN  Round(Sgn(x.m) * Sgn(y.m) * (2 * q + st), x.e - y.e - s - 1)

ISqrt(n) == CHOOSE r \in 0..Pow2(MantBits + 2) : r * r <= n /\ (r + 1) * (r + 1) > n

FSqrt(x) ==
    IF IsNaN(x) THEN NaN
    ELSE IF IsInf(x) THEN (IF x.m > 0 THEN x ELSE NaN)
    ELSE IF x.m < 0 THEN NaN
    ELSE IF x.m = 0 THEN Zero
    ELSE LET need == 2 * MantBits + 2 - BitLen(x.m)
             s0 == IF need < 0 THEN 0 ELSE need
             s == IF (x.e - s0) % 2 = 0 THEN s0 ELSE s0 + 1
             M == x.m * Pow2(s)
             r == ISqrt(M)
             st == IF r * r = M THEN 0 ELSE 1
         IN  Round(2 * r + st, ((x.e - s) \div 2) - 1)

\* ------------------------------------------------------- array reductions
\* np.add.reduce over fewer than 8 elements: one accumulator, left to right
RECURSIVE FSumTo(_, _)
FSumTo(s, n) == IF n <= 0 THEN Zero ELSE FAdd(FSumTo(s, n - 1), s[n])

\* mutant of FSum: the loop stops one element early
FSum_drop_last(s) == FSumTo(s, Len(s) - 1)

FSum(s) == FSumTo(s, Len(s))

\* np.mean(d): the sum divided by the element count
np_mean(d) == FDiv(FSum(d), FromInt(Len(d)))

\* mutant of np_var: the divisor n of the population variance (ddof ignored)
np_var_population(d, ddof) ==
    LET arrmean == FDiv(FSum(d), FromInt(Len(d)))
        x == [i \in 1..Len(d) |-> FSub(d[i], arrmean)]
        xx == [i \in 1..Len(d) |-> FMul(x[i], x[i])]
    IN  FDiv(FSum(xx), FromInt(Len(d)))

\* np.var(d, ddof): mean, deviations, squares, sum, division by n - ddof
np_var(d, ddof) ==
    LET arrmean == FDiv(FSum(d), FromInt(Len(d)))
        x == [i \in 1..Len(d) |-> FSub(d[i], arrmean)]
        xx == [i \in 1..Len(d) |-> FMul(x[i], x[i])]
        rcount == IF Len(d) - ddof > 0 THEN Len(d) - ddof ELSE 0
    IN  FDiv(FSum(xx), FromInt(rcount))

\* ------------------------------------------------- pandas mean and std
\* skipna=True: NaN entries are masked, replaced by 0 in the sums and left
\* out of the count
Count(s) == Cardinality({i \in 1..Len(s) : ~IsNaN(s[i])})

Masked(s) == [i \in 1..Len(s) |-> IF IsNaN(s[i]) THEN Zero ELSE s[i]]

nanmean(s) ==
    IF Count(s) = 0 THEN NaN
    ELSE FDiv(FSum(Masked(s)), FromInt(Count(s)))

\* mutant of nanvar: the divisor is the count (ddof ignored)
nanvar_population(s, ddof) ==
    IF Count(s) = 0 THEN NaN
    ELSE LET avg == FDiv(FSum(Masked(s)), FromInt(Count(s)))
             sqr == [i \in 1..Len(s) |->
                       IF IsNaN(s[i]) THEN Zero
                       ELSE FMul(FSub(avg, s[i]), FSub(avg, s[i]))]
         IN  FDiv(FSum(sqr), FromInt(Count(s)))

nanvar(s, ddof) ==
    IF Count(s) <= ddof THEN NaN
    ELSE LET avg == FDiv(FSum(Masked(s)), FromInt(Count(s)))
             sqr == [i \in 1..Len(s) |->
                       IF IsNaN(s[i]) THEN Zero
                       ELSE FMul(FSub(avg, s[i]), FSub(avg, s[i]))]
         IN  FDiv(FSum(sqr), FromInt(Count(s) - ddof))

\* mutant of nanstd: an undefined deviation is reported as 0
nanstd_fill_zero(s) ==
    IF IsNaN(FSqrt(nanvar(s, 1))) THEN Zero ELSE FSqrt(nanvar(s, 1))

nanstd(s) == FSqrt(nanvar(s, 1))

\* one column of data.agg(['mean', 'std'])
agg(s) == [mean |-> nanmean(s), std |-> nanstd(s)]

\* ------------------------------------------------------ scipy ttest_rel
\* mutant of t_sf2: the one-tailed probability sf(t, df) of the signed t
t_sf_one_tailed(t, df) ==
    IF IsNaN(t) \/ df <= 0 THEN [k |-> "nan", m |-> 0, e |-> 0, df |-> 0]
    ELSE IF IsInf(t) THEN [k |-> "zero", m |-> 0, e |-> 0, df |-> 0]
    ELSE IF IsZero(t) THEN [k |-> "one", m |-> 0, e |-> 0, df |-> 0]
    ELSE [k |-> "tail", m |-> t.m, e |-> t.e, df |-> df]

\* the two-tailed probability distributions.t.sf(|t|, df) * 2: NaN for a NaN
\* statistic, 0 at infinity, 1 at zero, and otherwise a value strictly
\* between 0 and 1 determined by |t| and df, strictly decreasing in |t|
t_sf2(t, df) ==
    IF IsNaN(t) \/ df <= 0 THEN [k |-> "nan", m |-> 0, e |-> 0, df |-> 0]
    ELSE IF IsInf(t) THEN [k |-> "zero", m |-> 0, e |-> 0, df |-> 0]
    ELSE IF IsZero(t) THEN [k |-> "one", m |-> 0, e |-> 0, df |-> 0]
    ELSE [k |-> "tail", m |-> Abs(t.m), e |-> t.e, df |-> df]

NoFloat == [k |-> "none", m |-> 0, e |-> 0]

NoProb == [k |-> "none", m |-> 0, e |-> 0, df |-> 0]

Returned(t, p) == [kind |-> "ok", t |-> t, p |-> p, err |-> ""]

Raised(msg) == [kind |-> "error", t |-> NoFloat, p |-> NoProb, err |-> msg]

NoResult == [kind |-> "none", t |-> NoFloat, p |-> NoProb, err |-> ""]

ValueError == "ValueError: unequal length arrays"

\* mutant of paired: the differences are taken second minus first
paired_swapped(x, y, n) ==
    LET df == n - 1
        d == [i \in 1..n |-> FSub(y[i], x[i])]
        v == np_var(d, 1)
        dm == np_mean(d)
        denom == FSqrt(FDiv(v, FromInt(n)))
        t == FDiv(dm, denom)
    IN  Returned(t, t_sf2(t, df))

\* mutant of paired: the ratio is inverted, standard error over mean
paired_inverted(x, y, n) ==
    LET df == n - 1
        d == [i \in 1..n |-> FSub(x[i], y[i])]
        v == np_var(d, 1)
        dm == np_mean(d)
        denom == FSqrt(FDiv(v, FromInt(n)))
        t == FDiv(denom, dm)
    IN  Returned(t, t_sf2(t, df))

\* the computation of ttest_rel on the first n pairs
paired(x, y, n) ==
    LET df == n - 1
        d == [i \in 1..n |-> FSub(x[i], y[i])]
        v == np_var(d, 1)
        dm == np_mean(d)
        denom == FSqrt(FDiv(v, FromInt(n)))
        t == FDiv(dm, denom)
    IN  Returned(t, t_sf2(t, df))

\* mutant of ttest_rel: the length check only rejects a shorter first
\* argument, a longer one is cut to the length of the second
ttest_rel_short_only(x, y) ==
    IF Len(x) < Len(y) THEN Raised(ValueError)
    ELSE IF Len(y) = 0 THEN Returned(NaN, t_sf2(NaN, 0))
    ELSE paired(x, y, Len(y))

\* mutant of ttest_rel: nan_policy 'raise' instead of 'propagate'
ttest_rel_nan_raise(x, y) ==
    IF \E i \in 1..Len(x) : IsNaN(x[i]) THEN Raised("ValueError: The input contains nan values")
    ELSE IF \E i \in 1..Len(y) : IsNaN(y[i]) THEN Raised("ValueError: The input contains nan values")
    ELSE IF Len(x) # Len(y) THEN Raised(ValueError)
    ELSE IF Len(x) = 0 THEN Returned(NaN, t_sf2(NaN, 0))
    ELSE paired(x, y, Len(x))

ttest_rel(x, y) ==
    IF Len(x) # Len(y) THEN Raised(ValueError)
    ELSE IF Len(x) = 0 THEN Returned(NaN, t_sf2(NaN, 0))
    ELSE paired(x, y, Len(x))

\* ------------------------------------------------------------- the print
\* "{:0.02f}".format(t): the exact binary value in hundredths, ties to even
Hundredths(t) ==
    IF t.e >= 0 THEN t.m * Pow2(t.e) * 100
    ELSE LET num == Abs(t.m) * 100
             den == Pow2(-t.e)
             q == num \div den
             r == num % den
             up == 2 * r > den \/ (2 * r = den /\ q % 2 = 1)
         IN  Sgn(t.m) * (IF up THEN q + 1 ELSE q)

format(t, p) ==
    [kind |-> "line",
     t |-> IF IsFinite(t) THEN [k |-> "fin", c |-> Hundredths(t)]
           ELSE [k |-> t.k, c |-> t.m],
     p |-> p]

NoLine == [kind |-> "none", t |-> [k |-> "none", c |-> 0], p |-> NoProb]

\* ------------------------------------------------------------- the inputs
Half == Fin(1, -1)

Three == Fin(3, 0)

Eight == Fin(8, 0)

FiniteVals == {Zero, Half, Three, Eight}

SecondVals == {Zero, Half, Eight}

BadVals == {Zero, Three, NaN, Inf(1), Inf(-1)}

SeqsUpTo(S, n) == UNION {[1..k -> S] : k \in 0..n}

\* ---------------------------------------------------------------- state
VARIABLES a, b, summary, result, stdout

\* several callers running the cells at once in the one namespace of the
\* notebook: the globals data, t and p, and for each caller its inputs, its
\* position, the columns it passed, the value its call returned and the line
\* it printed
VARIABLES args, pc, gdata, loc, ret, gt, gp, out

\* history: clean[i] holds as long as no step of caller i was taken while
\* another caller was between its first and its last step, and no step of
\* another caller was taken while caller i was
VARIABLES clean

svars == <<a, b, summary, result, stdout>>

cvars == <<args, pc, gdata, loc, ret, gt, gp, out, clean>>

vars == <<a, b, summary, result, stdout, args, pc, gdata, loc, ret, gt, gp, out, clean>>

NCallers == 2

Callers == 1..NCallers

Pair(x, y) == [x |-> x, y |-> y]

NoData == Pair(<<>>, <<>>)

Inputs == {Pair(<<Three, Eight>>, <<Zero, Three>>),
           Pair(<<Zero, Half>>, <<Eight, Three>>),
           Pair(<<Three, Eight, Zero>>, <<Zero, Half>>),
           Pair(<<Eight>>, <<Half>>),
           Pair(<<NaN, Zero>>, <<Zero, Zero>>)}

\* stats.ttest_rel(data["Algorithm 1"], data["Algorithm 2"]) of a data d
Call == [d \in Inputs |-> ttest_rel(d.x, d.y)]

\* no caller is running
NoCallers ==
    /\ args = [i \in Callers |-> NoData]
    /\ pc = [i \in Callers |-> "idle"]
    /\ gdata = NoData
    /\ loc = [i \in Callers |-> NoData]
    /\ ret = [i \in Callers |-> NoResult]
    /\ gt = NoFloat
    /\ gp = NoProb
    /\ out = [i \in Callers |-> NoLine]
    /\ clean = [i \in Callers |-> TRUE]

NoSummary == [kind |-> "none", a |-> [mean |-> NoFloat, std |-> NoFloat],
              b |-> [mean |-> NoFloat, std |-> NoFloat]]

\* the two columns handed to the calls: two sequences of finite floats of any
\* lengths up to MaxLen (the second over SecondVals),
\* or two equally long columns that may hold NaN and infinities
Init ==
    /\ \/ /\ a \in SeqsUpTo(FiniteVals, MaxLen)
          /\ b \in SeqsUpTo(SecondVals, MaxLen)
       \/ \E n \in 1..MaxBadLen :
             /\ a \in [1..n -> BadVals]
             /\ b \in [1..n -> BadVals]
    /\ summary = NoSummary
    /\ result = NoResult
    /\ stdout = NoLine
    /\ NoCallers

\* mutant of Agg: the missing values are filled in place before the summary
Agg_fillna_inplace ==
    /\ a' = Masked(a)
    /\ b' = Masked(b)
    /\ summary' = [kind |-> "ok", a |-> agg(a'), b |-> agg(b')]
    /\ UNCHANGED <<result, stdout>>
    /\ UNCHANGED cvars

\* data.agg(['mean', 'std'])
Agg ==
    /\ summary' = [kind |-> "ok", a |-> agg(a), b |-> agg(b)]
    /\ UNCHANGED <<a, b, result, stdout>>
    /\ UNCHANGED cvars

\* t, p = stats.ttest_rel(...); print(...): an exception ends the cell
\* before the print
TTest ==
    /\ result' = ttest_rel(a, b)
    /\ stdout' = IF result'.kind = "ok" THEN format(result'.t, result'.p)
                 ELSE stdout
    /\ UNCHANGED <<a, b, summary>>
    /\ UNCHANGED cvars

Next == Agg \/ TTest

Spec == Init /\ [][Next]_vars

\* ------------------------------------------------- concurrent callers
InitC ==
    /\ a = <<>> /\ b = <<>>
    /\ summary = NoSummary
    /\ result = NoResult
    /\ stdout = NoLine
    /\ args \in [Callers -> Inputs]
    /\ pc = [i \in Callers |-> "start"]
    /\ gdata = NoData
    /\ loc = [i \in Callers |-> NoData]
    /\ ret = [i \in Callers |-> NoResult]
    /\ gt = NoFloat
    /\ gp = NoProb
    /\ out = [i \in Callers |-> NoLine]
    /\ clean = [i \in Callers |-> TRUE]

InProgress(i) == pc[i] \notin {"idle", "start", "done", "raised"}

\* the history after a step of caller i
Stepped(i) ==
    [j \in Callers |->
        /\ clean[j]
        /\ j = i => \A k \in Callers \ {i} : ~InProgress(k)
        /\ j # i => ~InProgress(j)]

\* data = ...: the caller binds its two columns to the global data
LoadData(i) ==
    /\ pc[i] = "start"
    /\ gdata' = args[i]
    /\ pc' = [pc EXCEPT ![i] = "read"]
    /\ UNCHANGED <<args, loc, ret, gt, gp, out>>
    /\ clean' = Stepped(i)
    /\ UNCHANGED svars

\* data["Algorithm 1"], data["Algorithm 2"]: the arguments of the call are
\* read from the global data
ReadData(i) ==
    /\ pc[i] = "read"
    /\ loc' = [loc EXCEPT ![i] = gdata]
    /\ pc' = [pc EXCEPT ![i] = "validate"]
    /\ UNCHANGED <<args, gdata, ret, gt, gp, out>>
    /\ clean' = Stepped(i)
    /\ UNCHANGED svars

\* mutant of Validate: no check, every call goes on to compute
Validate_none(i) ==
    /\ pc[i] = "validate"
    /\ pc' = [pc EXCEPT ![i] = "compute"]
    /\ UNCHANGED <<args, gdata, loc, ret, gt, gp, out>>
    /\ clean' = Stepped(i)
    /\ UNCHANGED svars

\* ttest_rel, the check of the lengths: the exception ends the cell
Validate(i) ==
    /\ pc[i] = "validate"
    /\ IF Call[loc[i]].kind = "error"
       THEN /\ ret' = [ret EXCEPT ![i] = Call[loc[i]]]
            /\ pc' = [pc EXCEPT ![i] = "raised"]
       ELSE /\ ret' = ret
            /\ pc' = [pc EXCEPT ![i] = "compute"]
    /\ UNCHANGED <<args, gdata, loc, gt, gp, out>>
    /\ clean' = Stepped(i)
    /\ UNCHANGED svars

\* mutant of Compute: the call reads the global data again instead of the
\* arguments it was passed
Compute_global(i) ==
    /\ pc[i] = "compute"
    /\ ret' = [ret EXCEPT ![i] = Call[gdata]]
    /\ pc' = [pc EXCEPT ![i] = "store_t"]
    /\ UNCHANGED <<args, gdata, loc, gt, gp, out>>
    /\ clean' = Stepped(i)
    /\ UNCHANGED svars

\* ttest_rel, the computation: the call returns its t and p
Compute(i) ==
    /\ pc[i] = "compute"
    /\ ret' = [ret EXCEPT ![i] = Call[loc[i]]]
    /\ pc' = [pc EXCEPT ![i] = "store_t"]
    /\ UNCHANGED <<args, gdata, loc, gt, gp, out>>
    /\ clean' = Stepped(i)
    /\ UNCHANGED svars

\* t, p = ...: the two names are bound one after the other
StoreT(i) ==
    /\ pc[i] = "store_t"
    /\ gt' = ret[i].t
    /\ pc' = [pc EXCEPT ![i] = "store_p"]
    /\ UNCHANGED <<args, gdata, loc, ret, gp, out>>
    /\ clean' = Stepped(i)
    /\ UNCHANGED svars

StoreP(i) ==
    /\ pc[i] = "store_p"
    /\ gp' = ret[i].p
    /\ pc' = [pc EXCEPT ![i] = "print"]
    /\ UNCHANGED <<args, gdata, loc, ret, gt, out>>
    /\ clean' = Stepped(i)
    /\ UNCHANGED svars

\* print("t = {:0.02f}, p = {}".format(t, p)) of the globals t and p
PrintLine(i) ==
    /\ pc[i] = "print"
    /\ out' = [out EXCEPT ![i] = format(gt, gp)]
    /\ pc' = [pc EXCEPT ![i] = "done"]
    /\ UNCHANGED <<args, gdata, loc, ret, gt, gp>>
    /\ clean' = Stepped(i)
    /\ UNCHANGED svars

NextC ==
    \E i \in Callers :
        \/ LoadData(i)
        \/ ReadData(i)
        \/ Validate(i)
        \/ Compute(i)
        \/ StoreT(i)
        \/ StoreP(i)
        \/ PrintLine(i)

SpecC == InitC /\ [][NextC]_vars

\* ------------------------------------------------------------ properties
Called == result.kind # "none"

Summarized == summary.kind # "none"

AllFinite(s) == \A i \in 1..Len(s) : IsFinite(s[i])

ProbNaN == t_sf2(NaN, 0)

NaNLine == format(NaN, ProbNaN)

\* C1: a call with sequences of different lengths raises the length error of
\* ttest_rel (ValueError "unequal length arrays"): no t, p is returned and
\* nothing is printed
C1_LengthMismatch ==
    (Called /\ Len(a) # Len(b)) =>
        (result = Raised(ValueError) /\ stdout = NoLine)

C1_Witness == result.kind = "error" /\ Len(a) = 3 /\ Len(b) = 2

\* C2 as stated: equal lengths with N = 0 or N = 1 end in an error
C2_Original ==
    (Called /\ Len(a) = Len(b) /\ Len(a) < 2) => result.kind = "error"

\* C2 amended: equal lengths with N = 0 or N = 1 raise nothing; the call
\* returns statistic = NaN and p_value = NaN, and that line is printed
C2_SmallSampleNaN ==
    (Called /\ Len(a) = Len(b) /\ Len(a) < 2) =>
        (result = Returned(NaN, ProbNaN) /\ stdout = NaNLine)

C2_Witness ==
    /\ a = <<Eight>> /\ b = <<Half>>
    /\ result.kind = "ok" /\ IsNaN(result.t)

\* C3 as stated: on (A, A) with N >= 2 the result is neither a finite nonzero
\* statistic nor a NaN that fell through the division
C3_Original ==
    (Called /\ a = b /\ Len(a) >= 2 /\ AllFinite(a)) =>
        ~(result.kind = "ok"
          /\ (IsNaN(result.t) \/ (IsFinite(result.t) /\ ~IsZero(result.t))))

\* C3 amended: on (A, A) with N >= 2 no error is raised and no finite
\* statistic is returned: 0/0 falls through as statistic = NaN, p_value = NaN
C3_IdenticalNaN ==
    (Called /\ a = b /\ Len(a) >= 2) =>
        result = Returned(NaN, ProbNaN)

C3_Witness ==
    /\ Called /\ a = b /\ Len(a) = 3 /\ a[1] # a[2] /\ AllFinite(a)
    /\ IsNaN(result.t)

\* the differences as ttest_rel computes them, for columns of equal length
Diffs == [i \in 1..Len(a) |-> FSub(a[i], b[i])]

\* N >= 2 finite pairs whose computed differences are one nonzero constant
ConstantDifference ==
    /\ Len(a) = Len(b) /\ Len(a) >= 2
    /\ AllFinite(a) /\ AllFinite(b)
    /\ \A i \in 1..Len(a) : Diffs[i] = Diffs[1]
    /\ ~IsZero(Diffs[1])

ValidInput ==
    /\ Len(a) = Len(b) /\ Len(a) >= 2
    /\ AllFinite(a) /\ AllFinite(b)

\* C5: on valid input with a finite statistic, the call with the arguments
\* swapped returns the negated statistic and the same p-value
C5_SwapSymmetry ==
    (Called /\ ValidInput /\ IsFinite(result.t)) =>
        /\ ttest_rel(b, a).t = FNeg(result.t)
        /\ ttest_rel(b, a).p = result.p

C5_Witness ==
    /\ Called /\ ValidInput /\ Len(a) = 3
    /\ IsFinite(result.t) /\ FSign(result.t) < 0
    /\ FSign(ttest_rel(b, a).t) > 0

\* the least exponent among the inputs, and the exact sum of a column in
\* units of 2^e0
LowExp ==
    LET E == {a[i].e : i \in 1..Len(a)} \cup {b[i].e : i \in 1..Len(b)}
    IN  CHOOSE x \in E : \A y \in E : x <= y

RECURSIVE ExactSum(_, _)
ExactSum(s, e0) ==
    IF Len(s) = 0 THEN 0
    ELSE ExactSum(SubSeq(s, 1, Len(s) - 1), e0)
         + s[Len(s)].m * Pow2(s[Len(s)].e - e0)

ExactDelta == ExactSum(a, LowExp) - ExactSum(b, LowExp)

HasNonFinite(s) == \E i \in 1..Len(s) : ~IsFinite(s[i])

\* C7 as stated: a NaN or an infinity in either input ends in an error
C7_Original ==
    (Called /\ (HasNonFinite(a) \/ HasNonFinite(b))) => result.kind = "error"

\* C7 amended: a NaN or an infinity in either of two equally long inputs
\* raises nothing and is propagated: the call returns statistic = NaN and
\* p_value = NaN, and that line is printed
C7_NonFinitePropagates ==
    (Called /\ Len(a) = Len(b) /\ (HasNonFinite(a) \/ HasNonFinite(b))) =>
        (result = Returned(NaN, ProbNaN) /\ stdout = NaNLine)

C7_Witness ==
    /\ Called /\ Len(a) = 2 /\ a[2] = Inf(1) /\ AllFinite(b)
    /\ IsNaN(result.t) /\ stdout = NaNLine

Identical(s) == Len(s) >= 1 /\ AllFinite(s) /\ \A i \in 1..Len(s) : s[i] = s[1]

\* C8 as stated: N >= 1 identical values v give mean = v and std = 0
C8_Original ==
    (Summarized /\ Identical(a)) =>
        (summary.a.mean = a[1] /\ summary.a.std = Zero)

C8_IdenticalFor(s, r) ==
    Identical(s) =>
        /\ Len(s) = 1 => (r.mean = s[1] /\ IsNaN(r.std))
        /\ Len(s) = 2 => (r.mean = s[1] /\ r.std = Zero)
        /\ Len(s) >= 2 => (IsFinite(r.std) /\ (r.std = Zero <=> r.mean = s[1]))

\* C8 amended: N identical values v give mean = v and std = 0 for N = 2 and
\* for every N >= 2 where sum/N reproduces v; when the rounded mean differs
\* from v the std is not 0; for N = 1 the mean is v and the std is NaN
C8_IdenticalValues ==
    Summarized =>
        (C8_IdenticalFor(a, summary.a) /\ C8_IdenticalFor(b, summary.b))

C8_Witness ==
    /\ Summarized /\ Identical(a) /\ Len(a) = 3 /\ a[1] = Eight
    /\ summary.a.mean = Eight /\ summary.a.std = Zero

\* C9 as stated: with fewer than 2 elements the summary is an error
C9_Original ==
    (Summarized /\ Len(a) < 2) => summary.kind = "error"

C9_ShortFor(s, r) ==
    Len(s) < 2 =>
        /\ IsNaN(r.std)
        /\ r.mean = IF Len(s) = 1 /\ ~IsNaN(s[1]) THEN s[1] ELSE NaN

\* C9 amended: with fewer than 2 elements the summary does not fail; it
\* returns std = NaN, never 0, and mean = the single element (NaN for an
\* empty sample)
C9_ShortSampleNaN ==
    Summarized =>
        /\ summary.kind = "ok"
        /\ C9_ShortFor(a, summary.a) /\ C9_ShortFor(b, summary.b)

C9_Witness ==
    /\ Summarized /\ a = <<Three>>
    /\ summary.a.mean = Three /\ IsNaN(summary.a.std)

\* the exact sum of finite floats, and the squared deviations nanvar sums
MinExp(s) == CHOOSE x \in {s[i].e : i \in 1..Len(s)} :
                 \A i \in 1..Len(s) : x <= s[i].e

ExactF(s) == IF Len(s) = 0 THEN Zero ELSE Fin(ExactSum(s, MinExp(s)), MinExp(s))

SqDev(s) ==
    LET avg == nanmean(s)
    IN  [i \in 1..Len(s) |-> FMul(FSub(avg, s[i]), FSub(avg, s[i]))]

SumsExact(s) ==
    /\ AllFinite(s)
    /\ FSum(s) = ExactF(s)
    /\ LET sq == SqDev(s) IN FSum(sq) = ExactF(sq)

Perms(n) == {f \in [1..n -> 1..n] : \A i, j \in 1..n : f[i] = f[j] => i = j}

Permuted(s, f) == [i \in 1..Len(s) |-> s[f[i]]]

\* C10 as stated: every permutation of a sample has the same mean and std
C10_Original ==
    Summarized =>
        \A f \in Perms(Len(a)) : agg(Permuted(a, f)) = summary.a

\* C10 amended: a permutation has the same mean and std when the sample has
\* at most two elements, and for any length when the sum of the elements and
\* the sum of the squared deviations carry no rounding error in either order
C10_PermutationInvariance ==
    Summarized =>
        LET exact == SumsExact(a)
        IN  \A f \in Perms(Len(a)) :
                LET s2 == Permuted(a, f)
                IN  /\ Len(a) <= 2 => agg(s2) = summary.a
                    /\ (exact /\ SumsExact(s2)) => agg(s2) = summary.a

C10_Witness ==
    /\ Summarized /\ Len(a) = 3 /\ a[1] # a[3]
    /\ SumsExact(a) /\ SumsExact(<<a[3], a[2], a[1]>>)
    /\ ~IsZero(summary.a.std)
    /\ agg(<<a[3], a[2], a[1]>>) = summary.a

\* exact order of two floats that are not NaN
FLess(x, y) ==
    IF IsInf(x) THEN x.m < 0 /\ ~(IsInf(y) /\ y.m < 0)
    ELSE IF IsInf(y) THEN y.m > 0
    ELSE LET e == IF x.e < y.e THEN x.e ELSE y.e
         IN  x.m * Pow2(x.e - e) < y.m * Pow2(y.e - e)

\* order of two p-values of the same df: the tail probability decreases as
\* |t| grows, from 1 at t = 0 to 0 at infinity
ProbLess(p, q) ==
    \/ p.k = "zero" /\ q.k \in {"tail", "one"}
    \/ p.k = "tail" /\ q.k = "one"
    \/ /\ p.k = "tail" /\ q.k = "tail" /\ p.df = q.df
       /\ FLess(Fin(q.m, q.e), Fin(p.m, p.e))

\* the offsets c of B' = B + c, and the second column shifted by c
Offsets == {Fin(-3, 0), Zero, Half, Three, Eight}

Shift(s, c) == [i \in 1..Len(s) |-> FAdd(s[i], c)]

ShiftedDiffs(c) == [i \in 1..Len(a) |-> FSub(a[i], Shift(b, c)[i])]

Shifted == [c \in Offsets |-> ttest_rel(a, Shift(b, c))]

\* two offsets that leave the computed variance of the differences the same
\* and both statistics finite
SameVariance(c1, c2) ==
    /\ np_var(ShiftedDiffs(c1), 1) = np_var(ShiftedDiffs(c2), 1)
    /\ IsFinite(Shifted[c1].t) /\ IsFinite(Shifted[c2].t)

Alone(i) == Call[args[i]]

AloneLine(i) == IF Alone(i).kind = "ok" THEN format(Alone(i).t, Alone(i).p) ELSE NoLine

Finished(i) == pc[i] \in {"done", "raised"}

Returning(i) == pc[i] \in {"store_t", "store_p", "print", "done"}

C14_Returned(i) ==
    /\ ret'[i] # ret[i] => ret'[i] = Call[loc[i]]
    /\ loc'[i] # loc[i] => \E j \in Callers : loc'[i] = args[j]
    /\ out'[i] # out[i] => \E j, k \in Callers :
          /\ ret[j].kind = "ok" /\ ret[k].kind = "ok"
          /\ out'[i] = format(ret[j].t, ret[k].p)

C15_Original ==
    \A i \in Callers : (pc[i] = "compute" \/ Returning(i)) =>
        /\ Len(loc[i].x) = Len(loc[i].y)
        /\ Len(loc[i].x) >= 2
        /\ AllFinite(loc[i].x) /\ AllFinite(loc[i].y)

C15_State(i) ==
    /\ (pc[i] = "compute" \/ Returning(i)) => Len(loc[i].x) = Len(loc[i].y)
    /\ pc[i] \in {"start", "read", "validate", "compute"} => ret[i] = NoResult
    /\ pc[i] = "raised" =>
          /\ Len(loc[i].x) # Len(loc[i].y)
          /\ ret[i] = Raised(ValueError)
    /\ Returning(i) =>
          /\ ret[i].kind = "ok"
          /\ ret[i].t # NoFloat /\ ret[i].p # NoProb
    /\ out[i] # NoLine <=> pc[i] = "done"

C15_Step(i) ==
    /\ (pc'[i] = "compute" /\ pc[i] # "compute") => pc[i] = "validate"
    /\ (pc'[i] = "raised" /\ pc[i] # "raised") => pc[i] = "validate"
    /\ (Returning(i)' /\ ~Returning(i)) => pc[i] = "compute"
    /\ Finished(i) => (pc'[i] = pc[i] /\ ret'[i] = ret[i] /\ out'[i] = out[i])
    /\ ret[i] # NoResult => ret'[i] = ret[i]

\* C15: the phases are validate, compute, return; compute is entered only
\* after validation has found the two lengths equal, which is all it checks
\* (fewer than two pairs and non-finite values are computed); the error ends
\* the call before any statistic, p-value or line is produced; a call that
\* returns has both t and p; an ended call never runs again
C15_Phases ==
    /\ [](\A i \in Callers : C15_State(i))
    /\ [][\A i \in Callers : C15_Step(i)]_vars

C15_Witness ==
    \E i, j \in Callers :
        /\ pc[i] = "raised" /\ out[i] = NoLine
        /\ pc[j] = "done" /\ Len(loc[j].x) = 1 /\ IsNaN(ret[j].t)

====
